---- MODULE Spec2Model ----
(***************************************************************************)
(* Model of the block download manager (getBlocksManager) of harmony's     *)
(* staged stream sync, src/api/service/stagedstreamsync/block_manager.go,  *)
(* together with the worker and inserter loops that drive it.              *)
(*                                                                         *)
(* Every method of the manager takes gbm.lock for its whole body, so each  *)
(* method is one atomic action.  The workers and the single inserter       *)
(* interleave freely between method calls.                                 *)
(*                                                                         *)
(* Blocks are abstracted to their height: a stream answers a request for   *)
(* heights bns with, per position, either no block (nil) or the block of   *)
(* that height.  The result queue and the retry queue are not part of the  *)
(* available sources; they are modelled from their specification.          *)
(***************************************************************************)
EXTENDS Integers, Sequences, FiniteSets, TLC

\* ---------------------------------------------------------------- bounds
TargetBN == 4            \* gbm.targetBN; the chain starts at height 0
BlocksPerRequest == 2    \* numBlocksByNumPerRequest
SoftQueueCap == 2        \* softQueueCap
InsertBatchSize == 3     \* cap handed to PullContinuousBlocks by the inserter

MaxFaults == 2           \* failures of streams and of insertions in a fair run

Concurrency == 3          \* sh.config.Concurrency
HashWindow == 2           \* len(bns) of a getHashChain call
NumHashes == 4            \* len(hashes) of a getBlocksByHashes call
BatchSize == 2            \* hashes per request of getBlocksByHashes

Workers == {"w1", "w2"}
Peers == 1..Concurrency     \* streams of the pool in a short-range call
HashVals == {"h", "x"}      \* hashes a peer may report for one height
Streams == {"s1", "s2"}
NoStream == "none"

Heights == 1..TargetBN

VARIABLES
    head,        \* gbm.chain.CurrentBlock().NumberU64()
    requesting,  \* gbm.requesting : set of heights
    processing,  \* gbm.processing : set of heights
    retries,     \* gbm.retries    : ascending sequence of heights (multiset)
    rq,          \* gbm.rq         : sequence of [bn, stid], ascending by bn
    wpc,         \* per worker: "idle" or "waiting" (request in flight)
    batch,       \* per worker: the batch returned by its last GetNextBatch
    ipc,         \* inserter: "idle", "pulled", "inserted"
    pulled,      \* inserter: results of its last PullContinuousBlocks
    insN,        \* inserter: n returned by InsertChain on `pulled`
    faultsLeft,  \* failures the environment may still cause; -1: unlimited
    op,          \* the last manager operation, its arguments and its result
    resultC,     \* gbm.resultC : number of signals in its buffer
    rcv          \* a goroutine of the loops at resultC: "away", "parked", "woken"

\* State of one srHelper.getHashChain call and of the stream pool it uses.
VARIABLES
    pool,        \* syncProtocol: streams not removed by RemoveStream
    hpc,         \* per request goroutine: "ready" or "done" (wg.Done called)
    hashResults, \* results: the [hashes, stid] recorded by addResult, in order
    hashCalls,   \* number of GetBlockHashes requests issued
    hashRet,     \* what getHashChain returned; state "running" until then
    hashOp       \* the last response a goroutine handled

\* State of one srHelper.getBlocksByHashes call.
VARIABLES
    bwl,         \* getBlocksByHashManager: per batch, the streams still eligible
    bstat,       \* getBlocksByHashManager: per batch "todo", "pending", "done"
    bgot,        \* getBlocksByHashManager: per batch, the recorded blocks and stream
    gpc,         \* per worker: "top", "next", "request", "wait", "exit"
    greq,        \* per worker: the batch and whitelist of its request
    gErr,        \* gErr: TRUE once a worker stored an error of getNextHashes
    ctxDone,     \* the context of the call is cancelled
    blocksRet,   \* what getBlocksByHashes returned; state "running" until then
    blocksOp     \* the last step of a worker

\* One call of srHelper.blameAllStreams.
VARIABLES
    blame        \* its arguments and what it returned; "none" before the call

blocksVars == <<bwl, bstat, bgot, gpc, greq, gErr, ctxDone, blocksRet, blocksOp>>

hashVars == <<hpc, hashResults, hashCalls, hashRet, hashOp>>

srVars == <<pool, hashVars, blocksVars, blame>>

sigVars == <<resultC, rcv>>

vars == <<head, requesting, processing, retries, rq, wpc, batch, ipc, pulled, insN,
          faultsLeft, op, sigVars, srVars>>

\* ------------------------------------------------------------- utilities
Range(s) == {s[i] : i \in 1..Len(s)}

BNs(results) == [i \in 1..Len(results) |-> results[i].bn]

NoOp == [name |-> "init", bns |-> <<>>, stid |-> NoStream, present |-> {},
         results |-> <<>>, n |-> 0, cap |-> 0, removed |-> <<>>]

\* ------------------------------------------- prioritizedNumbers (retries)
\* push keeps the sequence ascending; duplicates are kept.
push(q, bn) == SortSeq(Append(q, bn), LAMBDA a, b : a < b)

pushAll(q, bns) == SortSeq(q \o bns, LAMBDA a, b : a < b)

\* pop returns the smallest value, or the sentinel 0 when empty.
pop(q) ==
    IF q = <<>> THEN [bn |-> 0, q |-> q] ELSE [bn |-> Head(q), q |-> Tail(q)]

\* ------------------------------------------------------------ resultQueue
HasHeight(q, bn) == \E i \in 1..Len(q) : q[i].bn = bn

\* The queue after pushing the results rs one by one: ascending by height;
\* a result whose height is already queued is ignored (first writer wins).
rqInsert(q, rs) ==
    LET H  == {q[i].bn : i \in 1..Len(q)} \cup {rs[i].bn : i \in 1..Len(rs)}
        hs == SelectSeq([b \in 1..TargetBN |-> b], LAMBDA b : b \in H)
        owner(b) ==
            IF HasHeight(q, b) THEN q[CHOOSE i \in 1..Len(q) : q[i].bn = b]
            ELSE rs[CHOOSE i \in 1..Len(rs) :
                        rs[i].bn = b /\ \A j \in 1..(i - 1) : rs[j].bn # b]
    IN [i \in 1..Len(hs) |-> owner(hs[i])]

\* addBlockResults(blocks, stid): push each non-nil block under stid.
addBlockResults(q, bns, stid) ==
    rqInsert(q, [i \in 1..Len(bns) |-> [bn |-> bns[i], stid |-> stid]])

\* HandleInsertError re-adds each abandoned result under its own stream id.
addAbandoned(q, abandoned) == rqInsert(q, abandoned)

\* popBlockResults(expHeight, cap): first every top entry below expHeight is
\* discarded and reported stale; then entries are popped while the top is
\* expHeight + len(results) and len(results) < cap.
RECURSIVE dropStale(_, _, _)
dropStale(q, expHeight, stales) ==
    IF q # <<>> /\ Head(q).bn < expHeight
    THEN dropStale(Tail(q), expHeight, Append(stales, Head(q).bn))
    ELSE [q |-> q, stales |-> stales]

RECURSIVE popRun(_, _, _, _)
popRun(q, expHeight, cap, results) ==
    IF q # <<>> /\ Len(results) < cap /\ Head(q).bn = expHeight + Len(results)
    THEN popRun(Tail(q), expHeight, cap, Append(results, Head(q)))
    ELSE [q |-> q, results |-> results]

popBlockResults(q, expHeight, cap) ==
    LET d == dropStale(q, expHeight, <<>>)
        p == popRun(d.q, expHeight, cap, <<>>)
    IN [results |-> p.results, stales |-> d.stales, q |-> p.q]

\* removeResultsByStreamID(stid): remove every entry of that stream and
\* return the removed heights.
removeResultsByStreamID(q, stid) ==
    [removed |-> BNs(SelectSeq(q, LAMBDA r : r.stid = stid)),
     q       |-> SelectSeq(q, LAMBDA r : r.stid # stid)]

\* ------------------------------------------------------ getBlocksManager
RECURSIVE retriesLoop(_, _, _, _, _)
retriesLoop(cnt, cap, q, curHeight, requestBNs) ==
    IF cnt >= cap THEN [bns |-> requestBNs, q |-> q]
    ELSE LET p == pop(q) IN
         IF p.bn = 0 THEN [bns |-> requestBNs, q |-> p.q]
         ELSE IF p.bn <= curHeight
              THEN retriesLoop(cnt + 1, cap, p.q, curHeight, requestBNs)
              ELSE retriesLoop(cnt + 1, cap, p.q, curHeight, Append(requestBNs, p.bn))

getBatchFromRetries(cap) == retriesLoop(0, cap, retries, head, <<>>)

\* The inner loop advances bn to the next height that is in neither
\* requesting nor processing; the outer loop takes at most cap of them.
RECURSIVE unprocessedLoop(_, _, _, _, _, _)
unprocessedLoop(cnt, cap, bn, req, proc, requestBNs) ==
    IF ~(cnt < cap /\ bn <= TargetBN) THEN requestBNs
    ELSE LET free == {b \in bn..TargetBN : b \notin req /\ b \notin proc} IN
         IF free = {} THEN requestBNs
         ELSE LET b == CHOOSE x \in free : \A y \in free : x <= y
              IN unprocessedLoop(cnt + 1, cap, b + 1, req, proc, Append(requestBNs, b))

\* Mutant: the first height is taken without comparing it with targetBN.
getBatchFromUnprocessed_PastTarget(cap, req) ==
    IF cap > 0 /\ head >= TargetBN THEN <<head + 1>>
    ELSE unprocessedLoop(0, cap, head + 1, req, processing, <<>>)

getBatchFromUnprocessed(cap, req) ==
    unprocessedLoop(0, cap, head + 1, req, processing, <<>>)

availableForMoreTasks == Len(rq) < SoftQueueCap

addBatchToRequesting(req, bns) == req \cup Range(bns)

\* The worker w takes the batch made of the heights popped from retries
\* followed by the fresh heights addBNs; op.n is the number of retried ones.
takeBatch(w, fromRetries, addBNs) ==
    LET bns == fromRetries.bns \o addBNs
    IN /\ wpc[w] = "idle"
       /\ retries' = fromRetries.q
       /\ requesting' = addBatchToRequesting(
                            addBatchToRequesting(requesting, fromRetries.bns), addBNs)
       /\ batch' = [batch EXCEPT ![w] = bns]
       /\ wpc' = [wpc EXCEPT ![w] = IF bns = <<>> THEN "idle" ELSE "waiting"]
       /\ op' = [NoOp EXCEPT !.name = "GetNextBatch", !.bns = bns,
                             !.n = Len(fromRetries.bns)]
       /\ UNCHANGED <<head, processing, rq, ipc, pulled, insN, faultsLeft, sigVars, srVars>>

\* Mutant: cap is not reduced by the number of retried heights.
GetNextBatch_KeepsCap(w) ==
    LET fromRetries == getBatchFromRetries(BlocksPerRequest)
        req1 == addBatchToRequesting(requesting, fromRetries.bns)
        addBNs == IF availableForMoreTasks
                  THEN getBatchFromUnprocessed(BlocksPerRequest, req1) ELSE <<>>
    IN takeBatch(w, fromRetries, addBNs)

\* Mutant: fresh heights are taken first and retries fill what is left.
GetNextBatch_FreshFirst(w) ==
    LET addBNs == IF availableForMoreTasks
                  THEN getBatchFromUnprocessed(BlocksPerRequest, requesting) ELSE <<>>
        fromRetries == getBatchFromRetries(BlocksPerRequest - Len(addBNs))
    IN takeBatch(w, fromRetries, addBNs)

\* Mutant: a full result queue also holds back the retried heights.
GetNextBatch_GatedRetries(w) ==
    LET fromRetries == IF availableForMoreTasks
                       THEN getBatchFromRetries(BlocksPerRequest)
                       ELSE [bns |-> <<>>, q |-> retries]
        cap  == BlocksPerRequest - Len(fromRetries.bns)
        req1 == addBatchToRequesting(requesting, fromRetries.bns)
        addBNs == IF availableForMoreTasks
                  THEN getBatchFromUnprocessed(cap, req1) ELSE <<>>
    IN takeBatch(w, fromRetries, addBNs)

\* Mutant: fresh heights are added whatever the length of the result queue.
GetNextBatch_IgnoresQueue(w) ==
    LET fromRetries == getBatchFromRetries(BlocksPerRequest)
        cap  == BlocksPerRequest - Len(fromRetries.bns)
        req1 == addBatchToRequesting(requesting, fromRetries.bns)
        addBNs == getBatchFromUnprocessed(cap, req1)
    IN takeBatch(w, fromRetries, addBNs)

GetNextBatch(w) ==
    LET fromRetries == getBatchFromRetries(BlocksPerRequest)
        cap  == BlocksPerRequest - Len(fromRetries.bns)
        req1 == addBatchToRequesting(requesting, fromRetries.bns)
        addBNs == IF availableForMoreTasks
                  THEN getBatchFromUnprocessed(cap, req1) ELSE <<>>
    IN takeBatch(w, fromRetries, addBNs)

\* The manager's sets after HandleRequestResult(bns, blocks, stid); blocks[i]
\* is nil unless bns[i] \in present, and is otherwise the block of height
\* bns[i].
requestResultState(bns, present, stid) ==
    LET absentBNs  == SelectSeq(bns, LAMBDA bn : bn \notin present)
        presentBNs == SelectSeq(bns, LAMBDA bn : bn \in present)
    IN [requesting |-> requesting \ Range(bns),
        retries    |-> pushAll(retries, absentBNs),
        processing |-> processing \cup Range(presentBNs),
        rq         |-> addBlockResults(rq, presentBNs, stid),
        removed    |-> <<>>]

\* Mutant: the results queued from the failing stream are left in the queue.
requestErrorState_NoScrub(bns, stid) ==
    [requesting |-> requesting \ Range(bns),
     retries    |-> pushAll(retries, bns),
     processing |-> processing,
     rq         |-> rq,
     removed    |-> <<>>]

\* The manager's sets after HandleRequestError(bns, err, stid).
requestErrorState(bns, stid) ==
    LET rm == removeResultsByStreamID(rq, stid)
    IN [requesting |-> requesting \ Range(bns),
        retries    |-> pushAll(pushAll(retries, bns), rm.removed),
        processing |-> processing \ Range(rm.removed),
        rq         |-> rm.q,
        removed    |-> rm.removed]

\* resultC: make(chan struct{}, 1).
ResultCCap == 1

sigInit == resultC = 0 /\ rcv = "away"

\* Mutant: the signal is put into the buffer whatever it holds.
nudge_Unbounded(c, r) ==
    IF r = "parked" THEN [resultC |-> c, rcv |-> "woken"]
    ELSE [resultC |-> c + 1, rcv |-> r]

\* Mutant: a full buffer is emptied instead of left alone.
nudge_Toggle(c, r) ==
    IF r = "parked" THEN [resultC |-> c, rcv |-> "woken"]
    ELSE IF c < ResultCCap THEN [resultC |-> c + 1, rcv |-> r]
    ELSE [resultC |-> 0, rcv |-> r]

\* select { case gbm.resultC <- struct{}{}: default: } with c signals in the
\* buffer and the receiving goroutine in state r: a goroutine parked in the
\* receive takes the signal itself and the buffer stays empty; otherwise the
\* signal goes into the buffer if there is room, and is dropped if not.
nudge(c, r) ==
    IF r = "parked" THEN [resultC |-> c, rcv |-> "woken"]
    ELSE IF c < ResultCCap THEN [resultC |-> c + 1, rcv |-> r]
    ELSE [resultC |-> c, rcv |-> r]

\* Mutant: the heights of an answered batch stay in requesting.
HandleRequestResult_KeepsRequesting(bns, present, stid) ==
    LET absentBNs  == SelectSeq(bns, LAMBDA bn : bn \notin present)
        presentBNs == SelectSeq(bns, LAMBDA bn : bn \in present)
    IN /\ requesting' = requesting
       /\ retries' = pushAll(retries, absentBNs)
       /\ processing' = processing \cup Range(presentBNs)
       /\ rq' = addBlockResults(rq, presentBNs, stid)
       /\ op' = [NoOp EXCEPT !.name = "HandleRequestResult", !.bns = bns,
                             !.stid = stid, !.present = present]
       /\ resultC' = nudge(resultC, rcv).resultC
       /\ rcv' = nudge(resultC, rcv).rcv

\* Mutant: every height of the batch is pushed to retries, answered or not.
HandleRequestResult_RetriesAll(bns, present, stid) ==
    LET presentBNs == SelectSeq(bns, LAMBDA bn : bn \in present)
    IN /\ requesting' = requesting \ Range(bns)
       /\ retries' = pushAll(retries, bns)
       /\ processing' = processing \cup Range(presentBNs)
       /\ rq' = addBlockResults(rq, presentBNs, stid)
       /\ op' = [NoOp EXCEPT !.name = "HandleRequestResult", !.bns = bns,
                             !.stid = stid, !.present = present]
       /\ resultC' = nudge(resultC, rcv).resultC
       /\ rcv' = nudge(resultC, rcv).rcv

\* Mutant: the delivered blocks are queued without their heights being put
\* in processing.
HandleRequestResult_SkipsProcessing(bns, present, stid) ==
    LET st == requestResultState(bns, present, stid)
    IN /\ requesting' = st.requesting
       /\ retries' = st.retries
       /\ processing' = processing
       /\ rq' = st.rq
       /\ op' = [NoOp EXCEPT !.name = "HandleRequestResult", !.bns = bns,
                             !.stid = stid, !.present = present]
       /\ resultC' = nudge(resultC, rcv).resultC
       /\ rcv' = nudge(resultC, rcv).rcv

HandleRequestResult(bns, present, stid) ==
    LET st == requestResultState(bns, present, stid)
    IN /\ requesting' = st.requesting
       /\ retries' = st.retries
       /\ processing' = st.processing
       /\ rq' = st.rq
       /\ op' = [NoOp EXCEPT !.name = "HandleRequestResult", !.bns = bns,
                             !.stid = stid, !.present = present]
       /\ resultC' = nudge(resultC, rcv).resultC
       /\ rcv' = nudge(resultC, rcv).rcv

\* Mutant: the results queued from the failing stream are left in the queue.
HandleRequestError_NoScrub(bns, stid) ==
    /\ requesting' = requesting \ Range(bns)
    /\ rq' = rq
    /\ processing' = processing
    /\ retries' = pushAll(retries, bns)
    /\ op' = [NoOp EXCEPT !.name = "HandleRequestError", !.bns = bns, !.stid = stid]

HandleRequestError(bns, stid) ==
    LET st == requestErrorState(bns, stid)
    IN /\ requesting' = st.requesting
       /\ rq' = st.rq
       /\ processing' = st.processing
       /\ retries' = st.retries
       /\ op' = [NoOp EXCEPT !.name = "HandleRequestError", !.bns = bns,
                             !.stid = stid, !.removed = st.removed]

\* A failure of a stream or of an insertion.  faultsLeft = -1 leaves the
\* number of failures unlimited; otherwise each failure uses up one.
Fault ==
    IF faultsLeft = -1 THEN faultsLeft' = faultsLeft
    ELSE faultsLeft > 0 /\ faultsLeft' = faultsLeft - 1

\* Worker loop: the stream answered the batch; every block is checked to be
\* the one of the requested height before it is handed to the manager.
WorkerResult(w, stid, present) ==
    /\ wpc[w] = "waiting"
    /\ present \subseteq Range(batch[w])
    /\ IF present = Range(batch[w]) THEN UNCHANGED faultsLeft ELSE Fault
    /\ HandleRequestResult(batch[w], present, stid)
    /\ wpc' = [wpc EXCEPT ![w] = "idle"]
    /\ batch' = [batch EXCEPT ![w] = <<>>]
    /\ UNCHANGED <<head, ipc, pulled, insN, srVars>>

\* Worker loop: the request failed.
WorkerError(w, stid) ==
    /\ wpc[w] = "waiting"
    /\ Fault
    /\ HandleRequestError(batch[w], stid)
    /\ wpc' = [wpc EXCEPT ![w] = "idle"]
    /\ batch' = [batch EXCEPT ![w] = <<>>]
    /\ UNCHANGED <<head, ipc, pulled, insN, sigVars, srVars>>

pullFrom(expHeight, cap) ==
    /\ ipc = "idle"
    /\ LET p == popBlockResults(rq, expHeight, cap)
       IN /\ rq' = p.q
          /\ processing' = processing \ Range(p.stales)
          /\ pulled' = p.results
          /\ ipc' = IF p.results = <<>> THEN "idle" ELSE "pulled"
          /\ op' = [NoOp EXCEPT !.name = "PullContinuousBlocks", !.cap = cap,
                                !.results = p.results]
    /\ UNCHANGED <<head, requesting, retries, wpc, batch, insN, faultsLeft, sigVars, srVars>>

\* Mutant: the expected height is taken one too high.
PullContinuousBlocks_SkipsNext(cap) == pullFrom(head + 2, cap)

PullContinuousBlocks(cap) == pullFrom(head + 1, cap)

\* Chain.InsertChain(blocks): inserts a prefix of length n; n = len(blocks)
\* on full success.  A block is accepted only on top of its parent.
InsertChain(n) ==
    /\ ipc = "pulled"
    /\ n \in 0..Len(pulled)
    /\ IF n = Len(pulled) THEN UNCHANGED faultsLeft ELSE Fault
    /\ \A i \in 1..n : pulled[i].bn = head + i
    /\ head' = head + n
    /\ insN' = n
    /\ ipc' = "inserted"
    /\ op' = [NoOp EXCEPT !.name = "InsertChain", !.results = pulled, !.n = n]
    /\ UNCHANGED <<requesting, processing, retries, rq, wpc, batch, pulled, sigVars, srVars>>

\* Mutant: the inserted heights stay in processing.
HandleInsertResult_KeepsProcessing ==
    /\ ipc = "inserted"
    /\ insN = Len(pulled)
    /\ processing' = processing
    /\ ipc' = "idle"
    /\ pulled' = <<>>
    /\ insN' = 0
    /\ op' = [NoOp EXCEPT !.name = "HandleInsertResult", !.results = pulled]
    /\ UNCHANGED <<head, requesting, retries, rq, wpc, batch, faultsLeft, sigVars, srVars>>

HandleInsertResult ==
    /\ ipc = "inserted"
    /\ insN = Len(pulled)
    /\ processing' = processing \ Range(BNs(pulled))
    /\ ipc' = "idle"
    /\ pulled' = <<>>
    /\ insN' = 0
    /\ op' = [NoOp EXCEPT !.name = "HandleInsertResult", !.results = pulled]
    /\ UNCHANGED <<head, requesting, retries, rq, wpc, batch, faultsLeft, sigVars, srVars>>

\* Mutant: the abandoned results are not put back into the result queue.
HandleInsertError_DropsAbandoned ==
    /\ ipc = "inserted"
    /\ insN < Len(pulled)
    /\ LET results   == pulled
           n         == insN
           inserted  == SubSeq(results, 1, n)
           errResult == results[n + 1]
           abandoned == SubSeq(results, n + 2, Len(results))
           rq1 == rq
           rm  == removeResultsByStreamID(rq1, errResult.stid)
       IN /\ rq' = rm.q
          /\ processing' = ((processing \ Range(BNs(inserted))) \ {errResult.bn})
                               \ Range(rm.removed)
          /\ retries' = pushAll(push(retries, errResult.bn), rm.removed)
          /\ op' = [NoOp EXCEPT !.name = "HandleInsertError", !.results = results,
                                !.n = n, !.stid = errResult.stid,
                                !.removed = rm.removed]
    /\ ipc' = "idle"
    /\ pulled' = <<>>
    /\ insN' = 0
    /\ UNCHANGED <<head, requesting, wpc, batch, faultsLeft, sigVars, srVars>>

HandleInsertError ==
    /\ ipc = "inserted"
    /\ insN < Len(pulled)
    /\ LET results   == pulled
           n         == insN
           inserted  == SubSeq(results, 1, n)
           errResult == results[n + 1]
           abandoned == SubSeq(results, n + 2, Len(results))
           rq1 == addAbandoned(rq, abandoned)
           rm  == removeResultsByStreamID(rq1, errResult.stid)
       IN /\ rq' = rm.q
          /\ processing' = ((processing \ Range(BNs(inserted))) \ {errResult.bn})
                               \ Range(rm.removed)
          /\ retries' = pushAll(push(retries, errResult.bn), rm.removed)
          /\ op' = [NoOp EXCEPT !.name = "HandleInsertError", !.results = results,
                                !.n = n, !.stid = errResult.stid,
                                !.removed = rm.removed]
    /\ ipc' = "idle"
    /\ pulled' = <<>>
    /\ insN' = 0
    /\ UNCHANGED <<head, requesting, wpc, batch, faultsLeft, sigVars, srVars>>

\* --------------------------------------------------------------- srHelper
\* A goroutine of the worker or inserter loop that found nothing to do waits
\* on resultC or a timer: it takes a buffered signal at once, or parks.
WaitResultC ==
    /\ rcv = "away"
    /\ IF resultC > 0
       THEN resultC' = resultC - 1 /\ rcv' = "woken"
       ELSE resultC' = resultC /\ rcv' = "parked"
    /\ op' = [NoOp EXCEPT !.name = "WaitResultC"]
    /\ UNCHANGED <<head, requesting, processing, retries, rq, wpc, batch, ipc, pulled,
                   insN, faultsLeft, srVars>>

\* The timer of a parked goroutine fires.
TimerResultC ==
    /\ rcv = "parked"
    /\ rcv' = "away"
    /\ op' = [NoOp EXCEPT !.name = "TimerResultC"]
    /\ UNCHANGED <<head, requesting, processing, retries, rq, wpc, batch, ipc, pulled,
                   insN, faultsLeft, resultC, srVars>>

\* A woken goroutine goes back to its loop, where it asks the manager again.
Recheck ==
    /\ rcv = "woken"
    /\ rcv' = "away"
    /\ op' = [NoOp EXCEPT !.name = "Recheck"]
    /\ UNCHANGED <<head, requesting, processing, retries, rq, wpc, batch, ipc, pulled,
                   insN, faultsLeft, resultC, srVars>>

dmVars == <<head, requesting, processing, retries, rq, wpc, batch, ipc, pulled, insN,
            faultsLeft, op, sigVars>>

NoHashOp == [kind |-> "none", stid |-> 0, len |-> 0]

Running == [state |-> "running", chain |-> <<>>, wl |-> {}]

hashInit ==
    /\ pool = Peers
    /\ hpc = [i \in 1..Concurrency |-> "ready"]
    /\ hashResults = <<>>
    /\ hashCalls = 0
    /\ hashRet = Running
    /\ hashOp = NoHashOp

\* What GetBlockHashes may deliver for a window of HashWindow heights: a hash
\* per height, or a slice that is one too short or one too long.
GoodLength == [1..HashWindow -> HashVals]

WrongLength == {[i \in 1..HashWindow - 1 |-> "h"], [i \in 1..HashWindow + 1 |-> "h"]}

Responses == GoodLength \cup WrongLength

\* blockHashResults.computeLongestHashChain over the recorded results rs:
\* at each position the hash reported by more than half of the peers that
\* agreed on the chain so far is accepted; it stops at the first position
\* without such a hash.  The whitelist is every peer whose response starts
\* with the chain.
Votes(rs, wl, i, h) == {k \in wl : rs[k].hashes[i] = h}

RECURSIVE longestFrom(_, _, _)
longestFrom(rs, chain, wl) ==
    LET i == Len(chain) + 1
        winners == {h \in HashVals :
                       2 * Cardinality(Votes(rs, wl, i, h)) > Cardinality(wl)}
    IN IF i > HashWindow \/ winners = {}
       THEN [chain |-> chain, wl |-> {rs[k].stid : k \in wl}]
       ELSE LET h == CHOOSE x \in winners : TRUE
            IN longestFrom(rs, Append(chain, h), Votes(rs, wl, i, h))

\* Mutant: the hash of the first recorded response is taken at each position.
computeLongestHashChain_FirstWins(rs) ==
    IF rs = <<>> THEN [chain |-> <<>>, wl |-> {}]
    ELSE [chain |-> rs[1].hashes,
          wl    |-> {rs[k].stid : k \in {j \in 1..Len(rs) : rs[j].hashes = rs[1].hashes}}]

\* Mutant: the most reported hash is taken at each position, majority or not.
computeLongestHashChain_Plurality(rs) ==
    LET most(wl, i) ==
            CHOOSE h \in HashVals :
                \A g \in HashVals :
                    Cardinality(Votes(rs, wl, i, g)) <= Cardinality(Votes(rs, wl, i, h))
        wl0 == 1..Len(rs)
        h1  == most(wl0, 1)
    IN IF rs = <<>> THEN [chain |-> <<>>, wl |-> {}]
       ELSE [chain |-> <<h1>>, wl |-> {rs[k].stid : k \in Votes(rs, wl0, 1, h1)}]

computeLongestHashChain(rs) == longestFrom(rs, <<>>, 1..Len(rs))

\* Mutant: a response of the wrong length fails without RemoveStream.
doGetBlockHashesRequest_KeepsStream(hashes, stid, failed) ==
    IF failed \/ Len(hashes) # HashWindow
    THEN [err |-> TRUE, hashes |-> <<>>, stid |-> stid, removed |-> {}]
    ELSE [err |-> FALSE, hashes |-> hashes, stid |-> stid, removed |-> {}]

\* doGetBlockHashesRequest(bns) when syncProtocol.GetBlockHashes answered
\* (hashes, stid, err) and failed says whether err was non-nil; removed is
\* the set of streams handed to RemoveStream.
doGetBlockHashesRequest(hashes, stid, failed) ==
    IF failed
    THEN [err |-> TRUE, hashes |-> <<>>, stid |-> stid, removed |-> {}]
    ELSE IF Len(hashes) # HashWindow
    THEN [err |-> TRUE, hashes |-> <<>>, stid |-> stid, removed |-> {stid}]
    ELSE [err |-> FALSE, hashes |-> hashes, stid |-> stid, removed |-> {}]

\* Goroutine i of getHashChain: its request is served by stream i of the
\* pool (the pool gives concurrent requests distinct streams); the result
\* is recorded by addResult unless the request returned an error.
HashRequest(i, hashes, failed) ==
    /\ hashRet.state = "running"
    /\ hpc[i] = "ready"
    /\ LET r == doGetBlockHashesRequest(hashes, i, failed)
       IN /\ pool' = pool \ r.removed
          /\ hashResults' =
                IF r.err THEN hashResults
                ELSE Append(hashResults, [hashes |-> r.hashes, stid |-> r.stid])
          /\ hashOp' = [kind |-> IF failed THEN "error"
                                 ELSE IF r.err THEN "rejected" ELSE "recorded",
                        stid |-> i, len |-> Len(hashes)]
    /\ hashCalls' = hashCalls + 1
    /\ hpc' = [hpc EXCEPT ![i] = "done"]
    /\ UNCHANGED <<hashRet, dmVars, blame, blocksVars>>

\* Mutant: the hash chain is computed without waiting for every goroutine.
HashReturn_NoWait(cancelled) ==
    /\ hashRet.state = "running"
    /\ \E i \in 1..Concurrency : hpc[i] = "done"
    /\ hashRet' =
          IF cancelled THEN [state |-> "cancelled", chain |-> <<>>, wl |-> {}]
          ELSE LET c == computeLongestHashChain(hashResults)
               IN [state |-> "ok", chain |-> c.chain, wl |-> c.wl]
    /\ hashOp' = [NoHashOp EXCEPT !.kind = IF cancelled THEN "ctxDone" ELSE "ctxLive"]
    /\ UNCHANGED <<pool, hpc, hashResults, hashCalls, dmVars, blame, blocksVars>>

\* Mutant: the chain is computed and returned whether sh.ctx is done or not.
HashReturn_SwallowsCancel(cancelled) ==
    /\ hashRet.state = "running"
    /\ \A i \in 1..Concurrency : hpc[i] = "done"
    /\ hashRet' = LET c == computeLongestHashChain(hashResults)
                  IN [state |-> "ok", chain |-> c.chain, wl |-> c.wl]
    /\ hashOp' = [NoHashOp EXCEPT !.kind = IF cancelled THEN "ctxDone" ELSE "ctxLive"]
    /\ UNCHANGED <<pool, hpc, hashResults, hashCalls, dmVars, blame, blocksVars>>

\* getHashChain after wg.Wait(): sh.ctx is done (cancelled) or the longest
\* hash chain is computed and returned.  hashOp keeps what the select on
\* sh.ctx.Done() saw.
HashReturn(cancelled) ==
    /\ hashRet.state = "running"
    /\ \A i \in 1..Concurrency : hpc[i] = "done"
    /\ hashRet' =
          IF cancelled THEN [state |-> "cancelled", chain |-> <<>>, wl |-> {}]
          ELSE LET c == computeLongestHashChain(hashResults)
               IN [state |-> "ok", chain |-> c.chain, wl |-> c.wl]
    /\ hashOp' = [NoHashOp EXCEPT !.kind = IF cancelled THEN "ctxDone" ELSE "ctxLive"]
    /\ UNCHANGED <<pool, hpc, hashResults, hashCalls, dmVars, blame, blocksVars>>

\* --------------------------------------------------- blameAllStreams
\* An error is the chain errors.As walks, outermost first: <<>> is nil, a
\* "sigVerify" link is an error of the type of emptySigVerifyErr, "other" any
\* other error.
ErrKinds == {"sigVerify", "other"}

Errors == {<<>>} \cup {<<a>> : a \in ErrKinds}
              \cup {<<a, b>> : a \in ErrKinds, b \in ErrKinds}

\* errors.As(err, &emptySigVerifyErr): some error of the chain has the type.
errorsAs(err) == \E i \in 1..Len(err) : err[i] = "sigVerify"

NoBlame == [called |-> FALSE, len |-> 0, errIndex |-> 0, err |-> <<>>, ret |-> TRUE]

\* Mutant: the index of the failing block is not looked at.
blameAllStreams_AnyIndex(len, errIndex, err) == IF errorsAs(err) THEN FALSE ELSE TRUE

\* Mutant: only the first block is excused.
blameAllStreams_FirstBlock(len, errIndex, err) ==
    IF errorsAs(err) /\ errIndex = 0 THEN FALSE ELSE TRUE

\* blameAllStreams(blocks, errIndex, err), len standing for len(blocks).
blameAllStreams(len, errIndex, err) ==
    IF errorsAs(err) /\ errIndex = len - 1 THEN FALSE ELSE TRUE

BlameAllStreams(len, errIndex, err) ==
    /\ ~blame.called
    /\ blame' = [called |-> TRUE, len |-> len, errIndex |-> errIndex, err |-> err,
                 ret |-> blameAllStreams(len, errIndex, err)]
    /\ UNCHANGED <<dmVars, pool, hashVars, blocksVars>>

\* ------------------------------------------------- getBlocksByHashes
\* m.numRequests(): the hashes are cut into batches of BatchSize, the last
\* one holding what is left.
NumBatches == (NumHashes + BatchSize - 1) \div BatchSize

Batches == 1..NumBatches

\* concurrency: sh.config.Concurrency, capped by m.numRequests().
BlockWorkers == 1..(IF Concurrency > NumBatches THEN NumBatches ELSE Concurrency)

\* The hashes asked for in batch b; the hash at position k of the call is k.
BatchLen(b) ==
    IF b * BatchSize > NumHashes THEN NumHashes - (b - 1) * BatchSize ELSE BatchSize

BatchHashes(b) == [k \in 1..BatchLen(b) |-> (b - 1) * BatchSize + k]

\* A block is stood for by its hash; 0 is the hash of a block nobody asked for.
WrongAt(b, k) == [BatchHashes(b) EXCEPT ![k] = 0]

\* A null entry of a response.
Nil == -1

NilAt(b, k) == [BatchHashes(b) EXCEPT ![k] = Nil]

\* What GetBlocksByHashes may deliver for batch b: the blocks asked for, the
\* same with a wrong last block or a null first entry, or a slice that is
\* one block short.
BlockResponses(b) ==
    {BatchHashes(b), WrongAt(b, BatchLen(b)), NilAt(b, 1),
     SubSeq(BatchHashes(b), 1, BatchLen(b) - 1)}

\* The response has the wrong length or holds a block with another hash than
\* the one asked for at its position.
Mismatch(b, blocks) ==
    \/ Len(blocks) # BatchLen(b)
    \/ \E k \in 1..BatchLen(b) : blocks[k] # Nil /\ blocks[k] # BatchHashes(b)[k]

NoRequest == [batch |-> 0, wl |-> {}]

NoBlocks == [blocks |-> <<>>, stid |-> 0]

NoBlocksOp == [kind |-> "none", stid |-> 0, got |-> <<>>]

blocksInit(whitelist) ==
    /\ bwl = [b \in Batches |-> whitelist]
    /\ bstat = [b \in Batches |-> "todo"]
    /\ bgot = [b \in Batches |-> NoBlocks]
    /\ gpc = [w \in BlockWorkers |-> "top"]
    /\ greq = [w \in BlockWorkers |-> NoRequest]
    /\ gErr = FALSE
    /\ ctxDone = FALSE
    /\ blocksRet = [state |-> "running", blocks |-> <<>>, stids |-> <<>>]
    /\ blocksOp = NoBlocksOp

srInit == hashInit /\ blocksInit(Peers) /\ blame = NoBlame

\* checkGetBlockByHashesResult(blocks, hashes): nil when the slice has the
\* length of the batch and every non-null entry has the hash asked for.
checkGetBlockByHashesResult(blocks, hashes) ==
    /\ Len(blocks) = Len(hashes)
    /\ \A k \in 1..Len(hashes) : blocks[k] = Nil \/ blocks[k] = hashes[k]

\* Mutant: a response failing the check is returned as an error without
\* RemoveStream.
doGetBlocksByHashesRequest_KeepsStream(hashes, blocks, stid, failed) ==
    IF failed \/ ~checkGetBlockByHashesResult(blocks, hashes)
    THEN [err |-> TRUE, blocks |-> <<>>, stid |-> stid, removed |-> {}]
    ELSE [err |-> FALSE, blocks |-> blocks, stid |-> stid, removed |-> {}]

\* Mutant: only the length of the response is checked.
doGetBlocksByHashesRequest_LengthOnly(hashes, blocks, stid, failed) ==
    IF failed
    THEN [err |-> TRUE, blocks |-> <<>>, stid |-> stid, removed |-> {}]
    ELSE IF Len(blocks) # Len(hashes)
    THEN [err |-> TRUE, blocks |-> <<>>, stid |-> stid, removed |-> {stid}]
    ELSE [err |-> FALSE, blocks |-> blocks, stid |-> stid, removed |-> {}]

\* doGetBlocksByHashesRequest(ctx, hashes, wl) when
\* syncProtocol.GetBlocksByHashes answered (blocks, stid, err); failed says
\* whether err was non-nil; removed is what is handed to RemoveStream.
doGetBlocksByHashesRequest(hashes, blocks, stid, failed) ==
    IF failed
    THEN [err |-> TRUE, blocks |-> <<>>, stid |-> stid, removed |-> {}]
    ELSE IF ~checkGetBlockByHashesResult(blocks, hashes)
    THEN [err |-> TRUE, blocks |-> <<>>, stid |-> stid, removed |-> {stid}]
    ELSE [err |-> FALSE, blocks |-> blocks, stid |-> stid, removed |-> {}]

\* m.isDone(): every hash has its block.
isDone == \A b \in Batches : bstat[b] = "done"

\* m.getNextHashes(): an error when the whitelist of an unfinished batch is
\* empty; otherwise the next batch that is neither finished nor pending,
\* with its whitelist; batch 0 (no hashes) when every unfinished batch is
\* pending.
getNextHashes ==
    LET todo == {b \in Batches : bstat[b] = "todo"}
    IN IF \E b \in Batches : bstat[b] # "done" /\ bwl[b] = {}
       THEN [err |-> TRUE, batch |-> 0, wl |-> {}]
       ELSE IF todo = {} THEN [err |-> FALSE, batch |-> 0, wl |-> {}]
       ELSE LET b == CHOOSE x \in todo : \A y \in todo : x <= y
            IN [err |-> FALSE, batch |-> b, wl |-> bwl[b]]

\* Worker w at the top of its loop: m.isDone().  A returning worker cancels
\* the context of the call (deferred cancel).
WorkerTop(w) ==
    /\ gpc[w] = "top"
    /\ IF isDone
       THEN gpc' = [gpc EXCEPT ![w] = "exit"] /\ ctxDone' = TRUE
       ELSE gpc' = [gpc EXCEPT ![w] = "next"] /\ ctxDone' = ctxDone
    /\ blocksOp' = NoBlocksOp
    /\ UNCHANGED <<pool, bwl, bstat, bgot, greq, gErr, blocksRet, hashVars, dmVars, blame>>

\* Mutant: the error of getNextHashes is dropped and the worker just returns.
WorkerNext_DropsError(w) ==
    /\ gpc[w] = "next"
    /\ LET r == getNextHashes
       IN IF r.err
          THEN /\ gErr' = gErr
               /\ gpc' = [gpc EXCEPT ![w] = "exit"]
               /\ ctxDone' = TRUE
               /\ UNCHANGED <<bstat, greq>>
               /\ blocksOp' = NoBlocksOp
          ELSE IF r.batch = 0
          THEN /\ gpc' = [gpc EXCEPT ![w] = "wait"]
               /\ UNCHANGED <<gErr, ctxDone, bstat, greq>>
               /\ blocksOp' = NoBlocksOp
          ELSE /\ gpc' = [gpc EXCEPT ![w] = "request"]
               /\ bstat' = [bstat EXCEPT ![r.batch] = "pending"]
               /\ greq' = [greq EXCEPT ![w] = [batch |-> r.batch, wl |-> r.wl]]
               /\ UNCHANGED <<gErr, ctxDone>>
               /\ blocksOp' = NoBlocksOp
    /\ UNCHANGED <<pool, bwl, bgot, blocksRet, hashVars, dmVars, blame>>

\* Worker w calls m.getNextHashes(): on an error it stores it in gErr and
\* returns; with no hashes it goes to wait; otherwise it holds a batch.
WorkerNext(w) ==
    /\ gpc[w] = "next"
    /\ LET r == getNextHashes
       IN IF r.err
          THEN /\ gErr' = TRUE
               /\ gpc' = [gpc EXCEPT ![w] = "exit"]
               /\ ctxDone' = TRUE
               /\ UNCHANGED <<bstat, greq>>
               /\ blocksOp' = NoBlocksOp
          ELSE IF r.batch = 0
          THEN /\ gpc' = [gpc EXCEPT ![w] = "wait"]
               /\ UNCHANGED <<gErr, ctxDone, bstat, greq>>
               /\ blocksOp' = NoBlocksOp
          ELSE /\ gpc' = [gpc EXCEPT ![w] = "request"]
               /\ bstat' = [bstat EXCEPT ![r.batch] = "pending"]
               /\ greq' = [greq EXCEPT ![w] = [batch |-> r.batch, wl |-> r.wl]]
               /\ UNCHANGED <<gErr, ctxDone>>
               /\ blocksOp' = NoBlocksOp
    /\ UNCHANGED <<pool, bwl, bgot, blocksRet, hashVars, dmVars, blame>>

\* Worker w waits with no hashes: the 200 ms timer sends it back to the top
\* of the loop; a cancelled context makes it return.
WorkerWait(w, timer) ==
    /\ gpc[w] = "wait"
    /\ timer \/ ctxDone
    /\ gpc' = [gpc EXCEPT ![w] = IF timer THEN "top" ELSE "exit"]
    /\ ctxDone' = (ctxDone \/ ~timer)
    /\ blocksOp' = NoBlocksOp
    /\ UNCHANGED <<pool, bwl, bstat, bgot, greq, gErr, blocksRet, hashVars, dmVars, blame>>

\* The request of doGetBlocksByHashesRequest as it would be with its context
\* derived from the ctx handed in.
requestCtxDone_FromArgument(ctx, shCtx) == ctx \/ shCtx

\* The context of the request of doGetBlocksByHashesRequest(ctx, ...):
\* context.WithTimeout(sh.ctx, 10 s), assigned to a new ctx that shadows the
\* argument.  It is done when sh.ctx is; the timeout is a failed request.
requestCtxDone(ctx, shCtx) == shCtx

\* Worker w gets the answer of its request from stream stid, one of the
\* whitelist it passed that is still in the pool; a request that reached no
\* stream fails with the empty stream id, 0, and so does a request whose
\* context is done (sh.ctx may be done or not at that moment).  On an error
\* m.handleResultError(hashes, stid) takes stid off the whitelist of the batch
\* and frees the batch;
\* otherwise m.addResult records the blocks under stid.  blocksOp keeps the
\* last answer that was not what had been asked for.
WorkerResponse(w, stid, blocks, failed) ==
    /\ gpc[w] = "request"
    /\ LET b    == greq[w].batch
           live == greq[w].wl \cap pool
           r    == doGetBlocksByHashesRequest(BatchHashes(b), blocks, stid, failed)
       IN /\ IF stid = 0 THEN failed ELSE stid \in live
          /\ \E shCtx \in BOOLEAN :
                requestCtxDone(ctxDone, shCtx) => (failed /\ stid = 0)
          /\ pool' = pool \ r.removed
          /\ IF r.err
             THEN /\ bwl' = [bwl EXCEPT ![b] = @ \ {stid}]
                  /\ bstat' = [bstat EXCEPT ![b] = "todo"]
                  /\ bgot' = bgot
             ELSE /\ bwl' = bwl
                  /\ bstat' = [bstat EXCEPT ![b] = "done"]
                  /\ bgot' = [bgot EXCEPT ![b] = [blocks |-> r.blocks, stid |-> stid]]
          /\ blocksOp' = IF failed \/ ~Mismatch(b, blocks) THEN NoBlocksOp
                          ELSE [kind |-> "answered", stid |-> stid, got |-> blocks]
    /\ gpc' = [gpc EXCEPT ![w] = "top"]
    /\ greq' = [greq EXCEPT ![w] = NoRequest]
    /\ UNCHANGED <<gErr, ctxDone, blocksRet, hashVars, dmVars, blame>>

\* m.getResults(): the blocks in the order of the hashes, with the stream
\* each one came from.
RECURSIVE getResults(_)
getResults(b) ==
    IF b > NumBatches THEN [blocks |-> <<>>, stids |-> <<>>]
    ELSE LET rest == getResults(b + 1)
         IN [blocks |-> bgot[b].blocks \o rest.blocks,
             stids  |-> [k \in 1..Len(bgot[b].blocks) |-> bgot[b].stid] \o rest.stids]

\* Mutant: the results are returned even when gErr is set.
BlocksReturn_IgnoresError(cancelled) ==
    /\ blocksRet.state = "running"
    /\ \A w \in BlockWorkers : gpc[w] = "exit"
    /\ blocksRet' =
          IF cancelled THEN [state |-> "cancelled", blocks |-> <<>>, stids |-> <<>>]
          ELSE LET res == getResults(1)
               IN [state |-> "ok", blocks |-> res.blocks, stids |-> res.stids]
    /\ blocksOp' = [NoBlocksOp EXCEPT !.kind = IF cancelled THEN "ctxDone" ELSE "ctxLive"]
    /\ UNCHANGED <<pool, bwl, bstat, bgot, gpc, greq, gErr, ctxDone, hashVars, dmVars, blame>>

\* Mutant: the results are returned whether sh.ctx is done or not.
BlocksReturn_SwallowsCancel(cancelled) ==
    /\ blocksRet.state = "running"
    /\ \A w \in BlockWorkers : gpc[w] = "exit"
    /\ blocksRet' =
          IF gErr THEN [state |-> "err", blocks |-> <<>>, stids |-> <<>>]
          ELSE LET res == getResults(1)
               IN [state |-> "ok", blocks |-> res.blocks, stids |-> res.stids]
    /\ blocksOp' = [NoBlocksOp EXCEPT !.kind = IF cancelled THEN "ctxDone" ELSE "ctxLive"]
    /\ UNCHANGED <<pool, bwl, bstat, bgot, gpc, greq, gErr, ctxDone, hashVars, dmVars, blame>>

\* getBlocksByHashes after wg.Wait(): gErr if set, else the error of a done
\* sh.ctx (cancelled), else the results.  blocksOp keeps what the select on
\* sh.ctx.Done() saw, or would have seen.
BlocksReturn(cancelled) ==
    /\ blocksRet.state = "running"
    /\ \A w \in BlockWorkers : gpc[w] = "exit"
    /\ blocksRet' =
          IF gErr THEN [state |-> "err", blocks |-> <<>>, stids |-> <<>>]
          ELSE IF cancelled
          THEN [state |-> "cancelled", blocks |-> <<>>, stids |-> <<>>]
          ELSE LET res == getResults(1)
               IN [state |-> "ok", blocks |-> res.blocks, stids |-> res.stids]
    /\ blocksOp' = [NoBlocksOp EXCEPT !.kind = IF cancelled THEN "ctxDone" ELSE "ctxLive"]
    /\ UNCHANGED <<pool, bwl, bstat, bgot, gpc, greq, gErr, ctxDone, hashVars, dmVars, blame>>

\* -------------------------------------------------------- specification
Init ==
    /\ head = 0
    /\ requesting = {}
    /\ processing = {}
    /\ retries = <<>>
    /\ rq = <<>>
    /\ wpc = [w \in Workers |-> "idle"]
    /\ batch = [w \in Workers |-> <<>>]
    /\ ipc = "idle"
    /\ pulled = <<>>
    /\ insN = 0
    /\ faultsLeft = -1
    /\ op = NoOp
    /\ sigInit
    /\ srInit

Next ==
    \/ \E w \in Workers : GetNextBatch(w)
    \/ \E w \in Workers, stid \in Streams :
           \E present \in SUBSET Range(batch[w]) : WorkerResult(w, stid, present)
    \/ \E w \in Workers, stid \in Streams : WorkerError(w, stid)
    \/ PullContinuousBlocks(InsertBatchSize)
    \/ \E n \in 0..InsertBatchSize : InsertChain(n)
    \/ HandleInsertResult
    \/ HandleInsertError

Spec == Init /\ [][Next]_vars

\* A catch-up in which the streams and the chain fail at most MaxFaults
\* times, every worker keeps asking for batches and gets every request
\* answered, and the inserter keeps pulling, inserting and reporting.
LiveInit ==
    /\ head = 0
    /\ requesting = {}
    /\ processing = {}
    /\ retries = <<>>
    /\ rq = <<>>
    /\ wpc = [w \in Workers |-> "idle"]
    /\ batch = [w \in Workers |-> <<>>]
    /\ ipc = "idle"
    /\ pulled = <<>>
    /\ insN = 0
    /\ faultsLeft = MaxFaults
    /\ op = NoOp
    /\ sigInit
    /\ srInit

WorkerAnswered(w) ==
    \/ \E stid \in Streams :
           \E present \in SUBSET Range(batch[w]) : WorkerResult(w, stid, present)
    \/ \E stid \in Streams : WorkerError(w, stid)

\* One step of worker w's loop, and one step of the inserter's loop.
Worker(w) == GetNextBatch(w) \/ WorkerAnswered(w)

Inserter ==
    \/ PullContinuousBlocks(InsertBatchSize)
    \/ \E n \in 0..InsertBatchSize : InsertChain(n)
    \/ HandleInsertResult
    \/ HandleInsertError

\* Every worker goroutine and the inserter keep running.
Fairness ==
    /\ \A w \in Workers : WF_vars(Worker(w))
    /\ WF_vars(Inserter)

LiveSpec == LiveInit /\ [][Next]_vars /\ Fairness

\* The manager driven through its interface: besides the worker and inserter
\* loops, a caller reports the failure of a batch a second time with the same
\* (bns, stid), which pushes heights into retries that are already there.
\* The repeated report counts among the MaxFaults failures of the run.
RepeatRequestError ==
    /\ op.name = "HandleRequestError"
    /\ Fault
    /\ HandleRequestError(op.bns, op.stid)
    /\ UNCHANGED <<head, wpc, batch, ipc, pulled, insN, sigVars, srVars>>

ApiNext ==
    \/ Next
    \/ RepeatRequestError

ApiSpec == LiveInit /\ [][ApiNext]_vars

\* A manager constructed on a chain whose head is anywhere up to and past
\* targetBN, driven by the worker and inserter loops.
FreshInit ==
    /\ head \in 0..TargetBN + 1
    /\ requesting = {}
    /\ processing = {}
    /\ retries = <<>>
    /\ rq = <<>>
    /\ wpc = [w \in Workers |-> "idle"]
    /\ batch = [w \in Workers |-> <<>>]
    /\ ipc = "idle"
    /\ pulled = <<>>
    /\ insN = 0
    /\ faultsLeft = -1
    /\ op = NoOp
    /\ sigInit
    /\ srInit

FreshSpec == FreshInit /\ [][Next]_vars

\* One call of srHelper.getHashChain on a window of HashWindow heights.
HashNext ==
    \/ \E i \in 1..Concurrency, hashes \in Responses : HashRequest(i, hashes, FALSE)
    \/ \E i \in 1..Concurrency : HashRequest(i, <<>>, TRUE)
    \/ \E cancelled \in BOOLEAN : HashReturn(cancelled)

HashSpec == Init /\ [][HashNext]_vars

\* One call of srHelper.getBlocksByHashes(hashes, whitelist) with any
\* whitelist of streams of the pool.
BlocksInit ==
    /\ head = 0
    /\ requesting = {}
    /\ processing = {}
    /\ retries = <<>>
    /\ rq = <<>>
    /\ wpc = [w \in Workers |-> "idle"]
    /\ batch = [w \in Workers |-> <<>>]
    /\ ipc = "idle"
    /\ pulled = <<>>
    /\ insN = 0
    /\ faultsLeft = -1
    /\ op = NoOp
    /\ sigInit
    /\ hashInit
    /\ blame = NoBlame
    /\ \E whitelist \in SUBSET Peers : blocksInit(whitelist)

BlockWorker(w) ==
    \/ WorkerTop(w)
    \/ WorkerNext(w)
    \/ \E timer \in BOOLEAN : WorkerWait(w, timer)
    \/ \E stid \in Peers, blocks \in BlockResponses(greq[w].batch) :
           WorkerResponse(w, stid, blocks, FALSE)
    \/ \E stid \in Peers \cup {0} : WorkerResponse(w, stid, <<>>, TRUE)

BlocksNext ==
    \/ \E w \in BlockWorkers : BlockWorker(w)
    \/ \E cancelled \in BOOLEAN : BlocksReturn(cancelled)

BlocksSpec == BlocksInit /\ [][BlocksNext]_vars

\* Every worker goroutine keeps running and every request is answered or
\* times out; the caller goes on after wg.Wait().
BlocksFairness ==
    /\ \A w \in BlockWorkers : WF_vars(BlockWorker(w))
    /\ WF_vars(\E cancelled \in BOOLEAN : BlocksReturn(cancelled))

BlocksLiveSpec == BlocksInit /\ [][BlocksNext]_vars /\ BlocksFairness

\* The catch-up of Spec with a goroutine that waits on resultC.
Receiver == WaitResultC \/ TimerResultC \/ Recheck

SignalSpec == Init /\ [][Next \/ Receiver]_vars

\* No call of the helper has started.
HashIdle ==
    /\ hashRet = Running
    /\ hashCalls = 0
    /\ \A i \in 1..Concurrency : hpc[i] = "ready"

BlocksIdle == blocksInit(Peers)

\* One call of the helper, getHashChain or getBlocksByHashes.
SrNext ==
    \/ BlocksIdle /\ HashNext
    \/ HashIdle /\ BlocksNext

SrSpec == BlocksInit /\ [][SrNext]_vars

\* blameAllStreams called once with any blocks, index and error: the blocks
\* are those of a getBlocksByHashes call, the index any int around them.
BlameNext ==
    \E len \in 0..NumHashes, errIndex \in -1..NumHashes, err \in Errors :
        BlameAllStreams(len, errIndex, err)

BlameSpec == Init /\ [][BlameNext]_vars

\* ---------------------------------------------------------------- sets
RetrySet == Range(retries)
Inserted == {bn \in Heights : bn <= head}
Outstanding == {bn \in Heights : bn > head}

DMOps == {"GetNextBatch", "HandleRequestResult", "HandleRequestError",
          "PullContinuousBlocks", "HandleInsertResult", "HandleInsertError"}

IsRun(results, from) == \A i \in 1..Len(results) : results[i].bn = from + i

\* ------------------------------------------------------------------ C1
\* C1: every PullContinuousBlocks(cap) returns at most cap results whose
\* heights are head+1, head+2, ... without a gap, head being the chain head
\* read at the call; and the blocks handed to InsertChain are such a run on
\* top of the head the chain has at that moment.
C1_GapFreeInsertion ==
    [][ /\ op'.name = "PullContinuousBlocks" =>
             Len(op'.results) <= op'.cap /\ IsRun(op'.results, head)
        /\ op'.name = "InsertChain" =>
             IsRun(op'.results, head) /\ head' = head + op'.n ]_vars

\* A run of two blocks was pulled while a worker still had a request in
\* flight, and the chain took both.
C1_Witness ==
    /\ op.name = "InsertChain" /\ op.n >= 2 /\ head >= 3
    /\ \E w \in Workers : wpc[w] = "waiting"

\* ------------------------------------------------------------------ C2
Disjoint(A, B) == A \cap B = {}

\* Heights the chain has taken from the run the inserter holds and that the
\* inserter has not yet reported to the manager.
Unreported ==
    IF ipc = "inserted" THEN {pulled[i].bn : i \in 1..insN} ELSE {}

\* C2 as stated: after every download-manager operation requesting,
\* processing, retries and {bn | bn <= chain.head} are pairwise disjoint.
C2_AsStated ==
    op.name \in DMOps =>
        /\ Disjoint(requesting, processing)
        /\ Disjoint(requesting, RetrySet)
        /\ Disjoint(processing, RetrySet)
        /\ Disjoint(requesting, Inserted)
        /\ Disjoint(processing, Inserted)
        /\ Disjoint(RetrySet, Inserted)

\* C2 (amended): requesting, processing, retries and {bn | bn <= chain.head}
\* are pairwise disjoint in every reachable state, except that processing
\* still holds the heights that InsertChain has inserted and the inserter has
\* not yet reported through HandleInsertResult or HandleInsertError.
C2_Disjoint ==
    /\ Disjoint(requesting, processing)
    /\ Disjoint(requesting, RetrySet)
    /\ Disjoint(processing, RetrySet)
    /\ Disjoint(requesting, Inserted)
    /\ processing \cap Inserted = Unreported
    /\ Disjoint(RetrySet, Inserted)

\* A worker took a batch while inserted heights were still unreported, with
\* all three tracking sets populated.
C2_Witness ==
    /\ op.name = "GetNextBatch" /\ op.bns # <<>>
    /\ Unreported # {}
    /\ requesting # {} /\ processing # {} /\ retries # <<>>

\* ------------------------------------------------------------------ C3
Count(q, bn) == Cardinality({i \in 1..Len(q) : q[i] = bn})

Unstarted(bn) == bn \notin requesting /\ bn \notin processing /\ bn \notin RetrySet

Tracked(bn) ==
    (IF bn \in requesting THEN 1 ELSE 0) + (IF bn \in processing THEN 1 ELSE 0)
        + Count(retries, bn) + (IF Unstarted(bn) THEN 1 ELSE 0)

\* C3: every height bn with chain.head < bn <= targetBN is in exactly one of
\* requesting, processing, retries (once) or unstarted, and an unstarted
\* height is among those getBatchFromUnprocessed still hands out.
C3_ExactlyOne ==
    \A bn \in Outstanding :
        /\ Tracked(bn) = 1
        /\ Unstarted(bn) => bn \in Range(getBatchFromUnprocessed(TargetBN, requesting))

\* Outstanding heights of all four kinds exist at once.
C3_Witness ==
    \E a, b, c, d \in Outstanding :
        /\ a \in requesting /\ b \in processing /\ c \in RetrySet /\ Unstarted(d)

\* ------------------------------------------------------------------ C4
\* C4: when the streams and the chain fail only finitely often and the
\* workers and the inserter are scheduled fairly, the chain head eventually
\* reaches targetBN (InsertChain only ever extends the head by the next
\* heights, so heights head+1..targetBN were inserted in order).
C4_CatchUpCompletes == <>(head = TargetBN)

\* The catch-up completed after the environment used up all its failures.
C4_Witness == head = TargetBN /\ faultsLeft = 0

\* ------------------------------------------------------------------ C5
LiveRetries == SelectSeq(retries, LAMBDA bn : bn > head)

\* Heights of the batch a HandleRequestResult call found without a block.
Absent(o) == {bn \in Range(o.bns) : bn \notin o.present}

\* Number of entries of retries below bn.
Below(bn) == Cardinality({i \in 1..Len(retries) : retries[i] < bn})

Min(a, b) == IF a <= b THEN a ELSE b

SmallestRetryFirst ==
    LiveRetries # <<>> => Head(LiveRetries) \in Range(op'.bns)

NoFreshWhileRetriesLeft ==
    (\E bn \in Range(retries') : bn > head) => Len(op'.bns) = op'.n

\* C5 as stated: a GetNextBatch returns the smallest height of retries above
\* chain.head, returns no fresh height when it leaves such a height behind,
\* and a height whose response was empty is re-requested by the next batch.
C5_AsStated ==
    [][ op'.name = "GetNextBatch" =>
          /\ SmallestRetryFirst
          /\ NoFreshWhileRetriesLeft
          /\ op.name = "HandleRequestResult" => Absent(op) \subseteq Range(op'.bns) ]_vars

\* C5 (amended): a GetNextBatch returns the lowest heights of retries, up to
\* BlocksPerRequest of them, ahead of any fresh height, and returns a fresh
\* height only when it leaves no height above chain.head in retries; a
\* height whose response was empty is re-requested by the next batch when
\* fewer than BlocksPerRequest lower heights wait in retries.
C5_LowestFirst ==
    [][ op'.name = "GetNextBatch" =>
          LET k == Min(BlocksPerRequest, Len(retries)) IN
          /\ SmallestRetryFirst
          /\ NoFreshWhileRetriesLeft
          /\ op'.n = k
          /\ SubSeq(op'.bns, 1, k) = SubSeq(retries, 1, k)
          /\ op.name = "HandleRequestResult" =>
                \A bn \in Absent(op) :
                    Below(bn) < BlocksPerRequest => bn \in Range(op'.bns) ]_vars

\* A batch was filled from retries alone and left retried heights behind.
C5_Witness ==
    /\ op.name = "GetNextBatch" /\ op.n = BlocksPerRequest
    /\ \E bn \in RetrySet : bn > head

\* ------------------------------------------------------------------ C6
\* C6: a GetNextBatch returns at most BlocksPerRequest heights, each above
\* chain.head and at most targetBN; on return exactly the returned heights
\* have been added to requesting.
C6_BatchBounds ==
    [][ op'.name = "GetNextBatch" =>
          /\ Len(op'.bns) <= BlocksPerRequest
          /\ \A bn \in Range(op'.bns) : head < bn /\ bn <= TargetBN
          /\ requesting' = requesting \cup Range(op'.bns) ]_vars

\* A full batch mixing a retried and a fresh height was handed out while
\* another worker had a request in flight.
C6_Witness ==
    /\ op.name = "GetNextBatch" /\ Len(op.bns) = BlocksPerRequest
    /\ 0 < op.n /\ op.n < Len(op.bns)
    /\ Range(op.bns) \subseteq requesting /\ requesting # Range(op.bns)

\* ------------------------------------------------------------------ C7
\* C7: a height pushed into retries more than once is deduplicated: a
\* GetNextBatch never returns a height that is already in requesting and
\* never returns the same height twice in one batch.
C7_NoDoubleDispatch ==
    [][ op'.name = "GetNextBatch" =>
          /\ Disjoint(Range(op'.bns), requesting)
          /\ Cardinality(Range(op'.bns)) = Len(op'.bns) ]_vars

C9_RequestErrorEffect ==
    [][ op'.name = "HandleRequestError" =>
          /\ Disjoint(Range(op'.bns), requesting')
          /\ Range(op'.bns) \subseteq Range(retries')
          /\ \A i \in 1..Len(rq') : rq'[i].stid # op'.stid
          /\ \A i \in 1..Len(rq) :
                rq[i].stid = op'.stid =>
                    rq[i].bn \notin processing' /\ rq[i].bn \in Range(retries') ]_vars

\* A failure evicted queued results of its stream and left those of the
\* other stream queued.
C9_Witness ==
    /\ op.name = "HandleRequestError" /\ op.removed # <<>>
    /\ rq # <<>>

\* ----------------------------------------------------------------- C10
\* C10: HandleInsertError(results, n) with 0 <= n < len(results): the heights
\* of results[0..n) leave processing; the height of results[n] leaves
\* processing and enters retries; no entry of the stream of results[n] stays
\* in the result queue, and every height evicted for that reason is in
\* retries and not in processing; every later result of another stream is
\* back in the result queue and still in processing.
C10_InsertErrorEffect ==
    [][ op'.name = "HandleInsertError" =>
          LET results == op'.results
              n       == op'.n
              off     == results[n + 1]
              later   == {results[j] : j \in n + 2..Len(results)}
              evicted == {r \in Range(rq) \cup later : r.stid = off.stid}
          IN /\ 0 <= n /\ n < Len(results)
             /\ \A j \in 1..n : results[j].bn \notin processing'
             /\ off.bn \notin processing' /\ off.bn \in Range(retries')
             /\ \A i \in 1..Len(rq') : rq'[i].stid # off.stid
             /\ \A r \in evicted :
                   r.bn \in Range(retries') /\ r.bn \notin processing'
             /\ \A r \in later :
                   r.stid # off.stid =>
                       r \in Range(rq') /\ r.bn \in processing' ]_vars

\* An insertion failed in the middle of a run of three: one block inserted,
\* the failing one blamed, the third of another stream put back, and a
\* queued result of the blamed stream evicted.
C10_Witness ==
    /\ op.name = "HandleInsertError"
    /\ op.n = 1 /\ Len(op.results) = 3
    /\ op.results[3].stid # op.stid
    /\ op.removed # <<>>

\* ----------------------------------------------------------------- C11
Evictions == {"HandleRequestError", "HandleInsertError"}

\* C11: once a stream has been evicted by HandleRequestError or by
\* HandleInsertError, the inserter consumes no result of that stream: the
\* operation that follows the eviction neither inserts a result of the
\* evicted stream into the chain (results already pulled included) nor
\* returns one from PullContinuousBlocks.
C11_EvictedNotConsumed ==
    [][ op.name \in Evictions =>
          /\ op'.name = "InsertChain" =>
                \A i \in 1..op'.n : op'.results[i].stid # op.stid
          /\ op'.name = "PullContinuousBlocks" =>
                \A i \in 1..Len(op'.results) : op'.results[i].stid # op.stid ]_vars

\* ----------------------------------------------------------------- C12
\* C12: HandleRequestError is idempotent: a second call with the same
\* (bns, stid) right after the first leaves requesting, processing, retries
\* (as a multiset; the ascending sequence stands for it) and the result
\* queue as the first call left them.
C12_RequestErrorIdempotent ==
    [][ ( /\ op.name = "HandleRequestError" /\ op'.name = "HandleRequestError"
          /\ op'.bns = op.bns /\ op'.stid = op.stid ) =>
            /\ requesting' = requesting
            /\ processing' = processing
            /\ retries' = retries
            /\ rq' = rq ]_vars

\* ----------------------------------------------------------------- C13
Sets(st) == <<st.requesting, st.processing, st.retries, st.rq>>

QueuedFrom(q, stid) == {i \in 1..Len(q) : q[i].stid = stid}

\* C13 as stated: whenever HandleRequestResult handles a batch in flight
\* with no block at all, requesting, processing, retries and the result
\* queue end as HandleRequestError(bns, err, stid) would have left them.
C13_AsStated ==
    [][ (op'.name = "HandleRequestResult" /\ op'.present = {}) =>
          <<requesting', processing', retries', rq'>>
              = Sets(requestErrorState(op'.bns, op'.stid)) ]_vars

\* C13 (amended): HandleRequestResult with no block at all and
\* HandleRequestError leave the same requesting; they leave the same
\* processing, retries and result queue when the queue holds no result of
\* stid, and otherwise HandleRequestError has in addition removed the queued
\* results of stid from the queue and from processing and pushed their
\* heights to retries.
C13_SameUpToScrub ==
    [][ (op'.name = "HandleRequestResult" /\ op'.present = {}) =>
          LET e  == requestErrorState(op'.bns, op'.stid)
              rm == removeResultsByStreamID(rq', op'.stid)
          IN /\ e.requesting = requesting'
             /\ e.rq = rm.q
             /\ e.processing = processing' \ Range(rm.removed)
             /\ e.retries = pushAll(retries', rm.removed)
             /\ QueuedFrom(rq, op'.stid) = {} =>
                    Sets(e) = <<requesting', processing', retries', rq'>> ]_vars

\* An empty response was handled while results of the same stream were
\* queued, the case in which the two outcomes differ.
C13_Witness ==
    /\ op.name = "HandleRequestResult" /\ op.present = {} /\ op.bns # <<>>
    /\ QueuedFrom(rq, op.stid) # {}

\* ----------------------------------------------------------------- C14
\* C14: when the result queue holds SoftQueueCap or more entries, a
\* GetNextBatch returns only heights popped from retries, none of them a
\* never-requested height, and still hands out the retried heights, lowest
\* first: the height the inserter waits for is returned when it is in
\* retries.
C14_FullQueueRetriesOnly ==
    [][ (op'.name = "GetNextBatch" /\ Len(rq) >= SoftQueueCap) =>
          /\ op'.n = Len(op'.bns)
          /\ op'.bns = SubSeq(retries, 1, Len(op'.bns))
          /\ \A bn \in Range(op'.bns) : ~Unstarted(bn)
          /\ retries # <<>> => Head(retries) \in Range(op'.bns)
          /\ head + 1 \in RetrySet => head + 1 \in Range(op'.bns) ]_vars

\* With a full result queue and never-requested heights left, a batch handed
\* out the retried height the inserter was waiting for.
C14_Witness ==
    /\ op.name = "GetNextBatch" /\ Len(rq) >= SoftQueueCap
    /\ head + 1 \in Range(op.bns)
    /\ \E bn \in Outstanding : Unstarted(bn)

\* ----------------------------------------------------------------- C15
\* C15: on a freshly constructed manager whose chain head is at or past
\* targetBN, GetNextBatch returns an empty batch and leaves requesting,
\* processing, retries and the result queue unchanged; the same holds in
\* every later state in which the head has reached targetBN.
C15_NothingLeftToRequest ==
    [][ (op'.name = "GetNextBatch" /\ head >= TargetBN) =>
          /\ op'.bns = <<>>
          /\ UNCHANGED <<requesting, processing, retries, rq>> ]_vars

\* The first operation on a manager constructed with head = targetBN was a
\* GetNextBatch.
C15_Witness ==
    /\ op.name = "GetNextBatch" /\ head = TargetBN
    /\ requesting = {} /\ processing = {} /\ retries = <<>> /\ rq = <<>>
    /\ ipc = "idle" /\ \A w \in Workers : wpc[w] = "idle"

\* ----------------------------------------------------------------- C16
Recorded == {hashResults[k].stid : k \in 1..Len(hashResults)}

\* C16: getHashChain issues exactly Concurrency GetBlockHashes requests and
\* returns only after all of them are done; a response whose length differs
\* from len(bns) is not recorded and its stream is removed from the pool; a
\* request that failed with an error is not recorded and its stream stays
\* in the pool; every recorded response has len(bns) hashes.
C16_HashRequests ==
    [][ /\ hashCalls' # hashCalls =>
              /\ hashCalls' = hashCalls + 1
              /\ (hashOp'.kind # "error" /\ hashOp'.len # HashWindow) =>
                    /\ hashResults' = hashResults
                    /\ hashOp'.stid \in pool /\ pool' = pool \ {hashOp'.stid}
              /\ hashOp'.kind = "error" =>
                    hashResults' = hashResults /\ pool' = pool
              /\ \A k \in 1..Len(hashResults') :
                    Len(hashResults'[k].hashes) = HashWindow
        /\ hashRet' # hashRet =>
              /\ hashCalls = Concurrency
              /\ \A i \in 1..Concurrency : hpc[i] = "done" ]_vars

\* The call returned after one response was rejected for its length, one
\* request failed and one response was recorded.
C16_Witness ==
    /\ hashRet.state = "ok"
    /\ Cardinality(Peers \ pool) = 1
    /\ hashResults # <<>>
    /\ Len(hashResults) + 1 < Concurrency

\* ----------------------------------------------------------------- C17
\* Recorded responses whose first n hashes are the first n of the chain.
Agree(n) ==
    {k \in 1..Len(hashResults) :
        SubSeq(hashResults[k].hashes, 1, n) = SubSeq(hashRet.chain, 1, n)}

\* C17: in the chain getHashChain returns, the hash at each position is the
\* one reported by a strict majority of the peers that agreed on the chain
\* up to there; the chain stops where no hash has such a majority; the
\* whitelist is exactly the set of recorded streams whose response starts
\* with the chain; a peer that reported another hash is not in the
\* whitelist and is still in the pool.
C17_MajorityChain ==
    hashRet.state = "ok" =>
        LET n == Len(hashRet.chain) IN
        /\ \A j \in 1..n : 2 * Cardinality(Agree(j)) > Cardinality(Agree(j - 1))
        /\ n < HashWindow =>
              \A h \in HashVals :
                  2 * Cardinality({k \in Agree(n) : hashResults[k].hashes[n + 1] = h})
                      <= Cardinality(Agree(n))
        /\ hashRet.wl = {hashResults[k].stid : k \in Agree(n)}
        /\ Recorded \subseteq pool

\* One liar among the recorded peers: the full chain of the others is
\* returned, the liar is left out of the whitelist and stays in the pool.
C17_Witness ==
    /\ hashRet.state = "ok" /\ Len(hashRet.chain) = HashWindow
    /\ Len(hashResults) = Concurrency
    /\ Cardinality(Recorded \ hashRet.wl) = 1
    /\ Recorded \ hashRet.wl \subseteq pool

\* ----------------------------------------------------------------- C18
Reordered(rs, f) == [k \in 1..Len(rs) |-> rs[f[k]]]

\* C18: the chain and the whitelist getHashChain returns are those that
\* computeLongestHashChain yields for every order in which the same
\* responses could have been recorded by addResult.
C18_OrderIndependent ==
    hashRet.state = "ok" =>
        \A f \in Permutations(1..Len(hashResults)) :
            LET c == computeLongestHashChain(Reordered(hashResults, f))
            IN c.chain = hashRet.chain /\ c.wl = hashRet.wl

\* Differing responses were recorded out of the order of their streams and
\* a chain was returned.
C18_Witness ==
    /\ hashRet.state = "ok" /\ hashRet.chain # <<>>
    /\ Len(hashResults) = Concurrency
    /\ hashResults[1].stid > hashResults[2].stid
    /\ hashResults[1].hashes # hashResults[2].hashes

\* ---------------------------------------------------------------- C19
AllHashes == [k \in 1..NumHashes |-> k]

Answered(w) == gpc[w] = "request" /\ gpc'[w] = "top" /\ blocksOp'.kind = "answered"

\* C19: when a stream answers a batch of getBlocksByHashes with a slice of
\* the wrong length or a block of another hash, the stream leaves the pool,
\* nothing is recorded for the batch, the batch is free to be claimed again
\* and its whitelist no longer holds the stream; whitelists never grow and a
\* claimed batch is requested with the whitelist of that moment; a call
\* that succeeds returns, position by position, blocks of the hashes asked
\* for (all of them when no recorded answer held a null entry).
C19_MismatchEvictsAndRetries ==
    [][/\ \A w \in BlockWorkers :
            /\ (Answered(w) /\ Mismatch(greq[w].batch, blocksOp'.got)) =>
                  /\ blocksOp'.stid \in pool
                  /\ pool' = pool \ {blocksOp'.stid}
                  /\ bgot'[greq[w].batch] = NoBlocks
                  /\ bstat'[greq[w].batch] = "todo"
                  /\ bwl'[greq[w].batch] = bwl[greq[w].batch] \ {blocksOp'.stid}
            /\ (gpc[w] = "next" /\ gpc'[w] = "request") =>
                  greq'[w].wl = bwl[greq'[w].batch]
       /\ \A b \in Batches : bwl'[b] \subseteq bwl[b]
       /\ (blocksRet.state = "running" /\ blocksRet'.state = "ok") =>
             /\ Len(blocksRet'.blocks) = Len(AllHashes)
             /\ \A k \in 1..Len(AllHashes) :
                    blocksRet'.blocks[k] \in {AllHashes[k], Nil}
             /\ (\A b \in Batches : bgot[b].blocks = BatchHashes(b)) =>
                    blocksRet'.blocks = AllHashes
      ]_vars

\* The call succeeded with every block asked for although a stream had been
\* removed from the pool and from the whitelist of a batch, which another
\* stream of the whitelist then answered.
C19_Witness ==
    /\ blocksRet.state = "ok"
    /\ blocksRet.blocks = AllHashes
    /\ \E b \in Batches, s \in Peers :
          /\ s \notin pool
          /\ s \notin bwl[b]
          /\ bgot[b].stid \in bwl[b]

\* ---------------------------------------------------------------- C20
ErrReturn == [state |-> "err", blocks |-> <<>>, stids |-> <<>>]

EmptyWhitelist == \E b \in Batches : bstat[b] # "done" /\ bwl[b] = {}

\* C20: a worker stores the error of getNextHashes only when the whitelist
\* of an unfinished batch is empty; once it is empty, every worker terminates
\* and getBlocksByHashes returns; and a call that returns after a worker
\* stored the error returns it with no blocks and no stream ids, whatever
\* the other workers completed.
C20_EmptyWhitelistFailsCall ==
    /\ [](gErr => EmptyWhitelist)
    /\ [](gErr /\ blocksRet.state # "running" => blocksRet = ErrReturn)
    /\ (EmptyWhitelist ~> (blocksRet = ErrReturn /\ gErr /\
                              \A w \in BlockWorkers : gpc[w] = "exit"))

\* The call failed although a batch had been completed.
C20_Witness ==
    /\ blocksRet = ErrReturn
    /\ gErr
    /\ \E b \in Batches : bstat[b] = "done" /\ bgot[b].blocks = BatchHashes(b)

C22_InFlightCancelled ==
    [][\A w \in BlockWorkers :
          (ctxDone /\ gpc[w] = "request" /\ gpc'[w] # "request") =>
              /\ bstat'[greq[w].batch] = "todo"
              /\ bgot' = bgot
              /\ bwl' = bwl
              /\ pool' = pool
      ]_vars

\* ---------------------------------------------------------------- C23
HashReturns == hashRet.state = "running" /\ hashRet'.state # "running"

BlocksReturns == blocksRet.state = "running" /\ blocksRet'.state # "running"

\* C23: when sh.ctx is done at the moment getHashChain has waited for its
\* request goroutines, it returns the context error with no hash chain and
\* no whitelist; when sh.ctx is done at the moment getBlocksByHashes has
\* waited for its workers, it returns the context error with no blocks and
\* no stream ids whatever was completed, unless a worker stored an error of
\* getNextHashes, which is returned instead.  Both return only after all
\* their goroutines did.
C23_CancellationPropagated ==
    [][/\ HashReturns =>
             /\ \A i \in 1..Concurrency : hpc[i] = "done"
             /\ hashOp'.kind = "ctxDone" =>
                   hashRet' = [state |-> "cancelled", chain |-> <<>>, wl |-> {}]
       /\ BlocksReturns =>
             /\ \A w \in BlockWorkers : gpc[w] = "exit"
             /\ blocksOp'.kind = "ctxDone" =>
                   blocksRet' = IF gErr THEN ErrReturn
                                ELSE [state |-> "cancelled", blocks |-> <<>>,
                                      stids |-> <<>>]
      ]_vars

\* getBlocksByHashes returned the context error although every batch had
\* been completed.
C23_Witness ==
    /\ blocksRet.state = "cancelled"
    /\ blocksOp.kind = "ctxDone"
    /\ ~gErr
    /\ \A b \in Batches : bstat[b] = "done" /\ bgot[b].blocks = BatchHashes(b)

\* getHashChain returned the context error although the recorded responses
\* had a longest chain.
C23_HashCancelled ==
    /\ hashRet.state = "cancelled"
    /\ hashOp.kind = "ctxDone"
    /\ computeLongestHashChain(hashResults).chain # <<>>

\* The error of getNextHashes was returned although sh.ctx was done.
C23_ErrorFirst ==
    /\ blocksRet = ErrReturn
    /\ blocksOp.kind = "ctxDone"

\* ---------------------------------------------------------------- C24
\* Worker w hands the answer of its request to HandleRequestResult.
ResultHandled(w) ==
    wpc[w] = "waiting" /\ wpc'[w] = "idle" /\ op'.name = "HandleRequestResult"

\* C24 as stated: whenever HandleRequestResult returns, a signal is in the
\* buffer of resultC.
C24_AsStated ==
    [][\A w \in Workers : ResultHandled(w) => resultC' = 1]_vars

\* C24: resultC never holds more than one signal; HandleRequestResult can
\* always be carried out, whatever resultC holds and whether or not a
\* goroutine is parked at it; and when it returns either a signal is in the
\* buffer or the parked goroutine took the signal of this call and is awake,
\* with the blocks of the call already in the result queue.
C24_SignalNotLost ==
    /\ [](resultC \in 0..ResultCCap)
    /\ [](rcv = "parked" => resultC = 0)
    /\ [](\A w \in Workers : wpc[w] = "waiting" =>
             ENABLED (\E stid \in Streams : WorkerResult(w, stid, Range(batch[w]))))
    /\ [][\A w \in Workers : ResultHandled(w) =>
             /\ \/ resultC' = 1 /\ rcv' = rcv
                \/ resultC' = 0 /\ rcv = "parked" /\ rcv' = "woken"
             /\ \A bn \in op'.present : HasHeight(rq', bn) \/ HasHeight(rq, bn)
      ]_vars

\* HandleRequestResult returned with blocks queued, no signal in the buffer
\* and the goroutine that was parked at resultC awake.
C24_Witness ==
    /\ op.name = "HandleRequestResult"
    /\ op.present # {}
    /\ rcv = "woken"
    /\ resultC = 0
    /\ rq # <<>>

\* HandleRequestResult returned after its signal was dropped on a full buffer.
C24_Dropped ==
    /\ op.name = "HandleRequestResult"
    /\ resultC = 1
    /\ rcv = "away"
    /\ Len(rq) > 1

\* ---------------------------------------------------------------- C25
\* The heights the inserter pulled and has not reported yet.
Held == IF ipc = "idle" THEN {} ELSE Range(BNs(pulled))

\* C25: processing is the set of the heights in the result queue together
\* with the heights of the results the inserter pulled and has not yet
\* reported through HandleInsertResult or HandleInsertError.
C25_ProcessingAccounted ==
    processing = Range(BNs(rq)) \cup Held

\* The inserter holds inserted results it has not reported while the queue
\* holds results above a gap; both are in processing.
C25_Witness ==
    /\ ipc = "inserted"
    /\ Held # {}
    /\ rq # <<>>
    /\ Held \cap Range(BNs(rq)) = {}
    /\ processing = Range(BNs(rq)) \cup Held

====
